---- MODULE Spec2Model ----
(***************************************************************************)
(* Model of the Blunux installer (installer-rs): the disk provisioning and *)
(* boot-configuration pipeline driven by Installer::install().             *)
(*                                                                         *)
(* Strings that the code inspects character by character (device paths)    *)
(* are sequences of one-character strings; strings that are only stored    *)
(* and compared (error messages, package names) are TLA+ strings.          *)
(* External commands are logged in cmds in the order the code issues them; *)
(* the exit status of a command is an input chosen by the environment.     *)
(***************************************************************************)
EXTENDS Integers, Sequences, FiniteSets, TLC

VARIABLES
    config,            \* Installer.config (the fields the pipeline reads)
    uefi,              \* environment: /sys/firmware/efi exists
    error_message,     \* Installer.error_message
    partition_layout,  \* Installer.partition_layout
    layout_returned,   \* history: partition_disk returned Some(layout)
    cryptroot_exists,  \* environment: /dev/mapper/cryptroot exists
    root_mounted,      \* environment: device mounted at mount_point, <<>> if none
    pc,                \* position of install(): the next call to make
    steps,             \* history: steps of install() that returned, with result
    cmds,              \* history: external commands issued, in order
    ret,               \* result of install(): "running", "true", "false"
    swapfile,          \* environment: <mount_point>/swapfile exists
    split_in,          \* input of the boot-entry split (pure-function check)
    split_out,         \* result of the boot-entry split
    swap_in,           \* input of the swap sizing: [mode, ram_mb]
    swap_out,          \* <<size>> computed by setup_swap, << >> before the call
    scan_text,         \* lspci output handed to the driver resolution
    resolved,          \* history: results of the resolutions of scan_text
    pacman_conf,       \* the pacman.conf the driver step of the check read
    swap_setting,      \* toml_root.disk: [disk, swap], swap an Option<String>
    swap_parsed,       \* cfg.disk.swap after Config::load, "" before the call
    toml_file,         \* the config file: [file, keyboard], an Option<Vec>
    loaded_from_file,  \* cfg.loaded_from_file
    keyboards,         \* cfg.locale.keyboards
    keyboard_step      \* what step 6 did: "", "prompted", "printed", "panic"

vars == <<config, uefi, error_message, partition_layout, layout_returned,
          cryptroot_exists, root_mounted, pc, steps, cmds, ret, swapfile,
          split_in, split_out, swap_in, swap_out, scan_text, resolved,
          pacman_conf, swap_setting, swap_parsed, toml_file,
          loaded_from_file, keyboards, keyboard_step>>

installer_vars_but_pc == <<config, uefi, error_message, partition_layout,
                           layout_returned, cryptroot_exists, root_mounted,
                           steps, cmds, ret, swapfile>>

\* the variables of the pure-function checks
split_vars == <<split_in, split_out>>
sizing_vars == <<swap_in, swap_out>>
resolve_vars == <<scan_text, resolved, pacman_conf>>
parse_vars == <<swap_setting, swap_parsed>>
keyboard_vars == <<toml_file, loaded_from_file, keyboards, keyboard_step>>
pure_vars == <<split_vars, resolve_vars, parse_vars, keyboard_vars>>

\* the swap file and the sizing that led to it
swap_state == <<swapfile, sizing_vars>>

----------------------------------------------------------------------------
(* Bounds *)

\* longest keyboard array read from config.toml
MaxKeyboards == 2

\* longest partition-number digit run fed to the boot-entry split
MaxDigits == 2

\* most partitions already present on the target disk (lsblk lines)
MaxStale == 1

\* the RAM sizes 0..MaxSmallRam (MB) are all fed to the swap sizing
MaxSmallRam == 9

\* swap commands failing on their own account in one pipeline run
MaxSwapFaults == 1

\* how often the driver resolution is applied to one scan text
MaxResolutions == 2

----------------------------------------------------------------------------
(* Strings as character sequences *)

Digits == {"0", "1", "2", "3", "4", "5", "6", "7", "8", "9"}

is_ascii_digit(c) == c \in Digits

\* s[from..to] over 1-based positions, empty when from > to
Slice(s, from, to) == SubSeq(s, from, to)

\* str::contains(sub)
Contains(s, sub) ==
    \E i \in 1..(Len(s) - Len(sub) + 1) :
        SubSeq(s, i, i + Len(sub) - 1) = sub

\* str::rfind(ch): 1-based position of the last ch, 0 when there is none
rfind(s, ch) ==
    IF \E i \in 1..Len(s) : s[i] = ch
    THEN CHOOSE i \in 1..Len(s) :
             s[i] = ch /\ \A j \in (i + 1)..Len(s) : s[j] # ch
    ELSE 0

NVME == <<"n", "v", "m", "e">>
MMCBLK == <<"m", "m", "c", "b", "l", "k">>
Dev == <<"/", "d", "e", "v", "/">>
CRYPTROOT == <<"/", "d", "e", "v", "/", "m", "a", "p", "p", "e", "r", "/",
               "c", "r", "y", "p", "t", "r", "o", "o", "t">>
MOUNT_POINT == <<"/", "m", "n", "t">>
NoArg == <<>>

----------------------------------------------------------------------------
(* Command log *)

\* one command of a function body: checked means the code tests its status
C(op, arg, checked) == [op |-> op, arg |-> arg, checked |-> checked]

\* the positions at which a body can stop early: 0 means no checked command
\* failed, i means the checked command at position i failed
FailPoints(body) == {0} \cup {i \in 1..Len(body) : body[i].checked}

\* the commands a body issues when its first failing checked command is at
\* failIdx: everything up to and including it; a command whose status the
\* code discards is logged as "ignored"
Issued(body, failIdx) ==
    [i \in 1..(IF failIdx = 0 THEN Len(body) ELSE failIdx) |->
        [op  |-> body[i].op,
         arg |-> body[i].arg,
         res |-> IF ~body[i].checked THEN "ignored"
                 ELSE IF i = failIdx THEN "fail" ELSE "ok"]]

Ops(log) == {log[i].op : i \in 1..Len(log)}

Issuing(op) == \E i \in 1..Len(cmds) : cmds[i].op = op

----------------------------------------------------------------------------
(* disk.rs *)

\* the disks get_disks() lists: /dev/<NAME> for every lsblk line of type disk
DiskNames ==
    { <<"s", "d", "a">>,
      <<"v", "d", "a">>,
      <<"n", "v", "m", "e", "0", "n", "1">>,
      <<"m", "m", "c", "b", "l", "k", "0">>,
      <<"n", "b", "d", "0">>,
      <<"p", "m", "e", "m", "1">> }

get_disks == {Dev \o n : n \in DiskNames}

is_uefi == uefi

is_nvme(disk) == Contains(disk, NVME) \/ Contains(disk, MMCBLK)

\* variant: the EFI partition name is filled in for both schemes
derive_names_efi_always(disk, scheme) ==
    IF is_nvme(disk)
    THEN [efi_partition  |-> disk \o <<"p", "1">>,
          root_partition |-> disk \o <<"p", "2">>,
          scheme         |-> scheme]
    ELSE [efi_partition  |-> disk \o <<"1">>,
          root_partition |-> disk \o <<"2">>,
          scheme         |-> scheme]

\* the layout partition_disk fills in once every creation command succeeded
derive_names(disk, scheme) ==
    IF scheme = "GptUefi"
    THEN IF is_nvme(disk)
         THEN [efi_partition  |-> disk \o <<"p", "1">>,
               root_partition |-> disk \o <<"p", "2">>,
               scheme         |-> scheme]
         ELSE [efi_partition  |-> disk \o <<"1">>,
               root_partition |-> disk \o <<"2">>,
               scheme         |-> scheme]
    ELSE IF is_nvme(disk)
         THEN [efi_partition  |-> <<>>,
               root_partition |-> disk \o <<"p", "1">>,
               scheme         |-> scheme]
         ELSE [efi_partition  |-> <<>>,
               root_partition |-> disk \o <<"1">>,
               scheme         |-> scheme]

\* environment: the device node the kernel creates for partition k of disk
KernelPartName(disk, k) ==
    IF is_ascii_digit(disk[Len(disk)])
    THEN disk \o <<"p", k>>
    ELSE disk \o <<k>>

PartNo == <<"1", "2", "3">>

\* partition_disk, lines 96-119: best-effort cleanup of the target disk
partition_cleanup(disk, stale) ==
    [i \in 1..(2 * stale) |->
        IF i % 2 = 1
        THEN C("umount -f", KernelPartName(disk, PartNo[(i + 1) \div 2]), FALSE)
        ELSE C("swapoff", KernelPartName(disk, PartNo[i \div 2]), FALSE)]
    \o << C("cryptsetup close", NoArg, FALSE),
          C("sleep", NoArg, FALSE) >>

\* partition_disk, lines 123-182: the table and the partitions
partition_create(disk, scheme) ==
    IF scheme = "GptUefi"
    THEN << C("parted mklabel gpt", disk, TRUE),
            C("parted mkpart fat32", disk, TRUE),
            C("parted set esp", disk, FALSE),
            C("parted mkpart ext4", disk, TRUE) >>
    ELSE << C("parted mklabel msdos", disk, TRUE),
            C("parted mkpart ext4", disk, TRUE),
            C("parted set boot", disk, FALSE) >>

\* partition_disk, lines 184-186
partition_settle(disk) ==
    << C("partprobe", disk, FALSE), C("sleep", NoArg, FALSE) >>

\* variant: with encryption, ext4 is still created on the raw partition
format_body_ext4_raw(layout, use_encryption) ==
    (IF layout.scheme = "GptUefi"
     THEN << C("mkfs.fat", layout.efi_partition, TRUE) >>
     ELSE << >>)
    \o
    (IF use_encryption
     THEN << C("cryptsetup luksFormat", layout.root_partition, TRUE),
             C("cryptsetup open", layout.root_partition, TRUE),
             C("mkfs.ext4", layout.root_partition, TRUE) >>
     ELSE << C("mkfs.ext4", layout.root_partition, TRUE) >>)

\* format_partitions: the commands in issue order
format_body(layout, use_encryption) ==
    (IF layout.scheme = "GptUefi"
     THEN << C("mkfs.fat", layout.efi_partition, TRUE) >>
     ELSE << >>)
    \o
    (IF use_encryption
     THEN << C("cryptsetup luksFormat", layout.root_partition, TRUE),
             C("cryptsetup open", layout.root_partition, TRUE),
             C("mkfs.ext4", CRYPTROOT, TRUE) >>
     ELSE << C("mkfs.ext4", layout.root_partition, TRUE) >>)

\* variant: the raw root partition is mounted whatever exists
root_dev_raw(layout, mapper_exists) == layout.root_partition

\* mount_partitions, lines 250-254
root_dev(layout, mapper_exists) ==
    IF mapper_exists THEN CRYPTROOT ELSE layout.root_partition

\* mount_partitions: the commands in issue order
mount_body(layout, mapper_exists) ==
    << C("mkdir", MOUNT_POINT, FALSE),
       C("mount", root_dev(layout, mapper_exists), TRUE) >>
    \o
    (IF layout.scheme = "GptUefi"
     THEN << C("mkdir", MOUNT_POINT, FALSE),
             C("mount efi", layout.efi_partition, TRUE) >>
     ELSE << >>)

\* variant: unmount_partitions releases nothing
unmount_body_empty == << >>

\* unmount_partitions
unmount_body ==
    << C("umount -R", MOUNT_POINT, FALSE),
       C("cryptsetup close", NoArg, FALSE) >>

\* position of op in body, 0 when body does not issue it
PosOf(body, op) ==
    IF \E i \in 1..Len(body) : body[i].op = op
    THEN CHOOSE i \in 1..Len(body) : body[i].op = op
    ELSE 0

\* whether the run of body that stopped at failIdx completed command op
Succeeded(body, failIdx, op) ==
    /\ PosOf(body, op) > 0
    /\ failIdx = 0 \/ PosOf(body, op) < failIdx

----------------------------------------------------------------------------
(* config.rs *)

SwapModes == {"None", "Small", "Suspend", "File"}

\* the letters of the labels (and x) with their upper-case forms
Cases ==
    << <<"a", "A">>,
       <<"d", "D">>,
       <<"e", "E">>,
       <<"f", "F">>,
       <<"l", "L">>,
       <<"i", "I">>,
       <<"m", "M">>,
       <<"n", "N">>,
       <<"o", "O">>,
       <<"p", "P">>,
       <<"s", "S">>,
       <<"u", "U">>,
       <<"x", "X">> >>

\* char::to_lowercase on the characters used here
to_lowercase_char(c) ==
    IF \E k \in 1..Len(Cases) : Cases[k][2] = c
    THEN Cases[CHOOSE k \in 1..Len(Cases) : Cases[k][2] = c][1]
    ELSE c

\* str::to_lowercase
to_lowercase(str) == [k \in 1..Len(str) |-> to_lowercase_char(str[k])]

LABEL_NONE == <<"n", "o", "n", "e">>

LABEL_SMALL == <<"s", "m", "a", "l", "l">>

LABEL_SUSPEND == <<"s", "u", "s", "p", "e", "n", "d">>

LABEL_FILE == <<"f", "i", "l", "e">>

\* variant: the labels are matched without lower-casing
from_str_case_sensitive(str) ==
    CASE str = LABEL_NONE    -> "None"
      [] str = LABEL_SMALL   -> "Small"
      [] str = LABEL_SUSPEND -> "Suspend"
      [] str = LABEL_FILE    -> "File"
      [] OTHER               -> "Suspend"

\* SwapMode::from_str
from_str(str) ==
    CASE to_lowercase(str) = LABEL_NONE    -> "None"
      [] to_lowercase(str) = LABEL_SMALL   -> "Small"
      [] to_lowercase(str) = LABEL_SUSPEND -> "Suspend"
      [] to_lowercase(str) = LABEL_FILE    -> "File"
      [] OTHER                             -> "Suspend"

\* DiskConfig::default
default_swap == "Suspend"

\* Config::load, lines 405-410: cfg.disk.swap for a parsed [disk] table
load_swap(toml_disk) ==
    IF toml_disk.disk /\ toml_disk.swap # << >>
    THEN from_str(toml_disk.swap[1])
    ELSE default_swap

Bootloaders == {"grub", "nmbl"}

----------------------------------------------------------------------------
(* installer.rs: pure parts *)

\* the order of the steps in install()
StepOrder ==
    << "prepare_disk", "install_base_system", "generate_fstab",
       "configure_system", "detect_and_install_drivers", "install_packages",
       "configure_locale", "configure_input_method", "configure_users",
       "install_bootloader", "finalize" >>

\* get_base_packages, lines 212-215 (the fixed part of the list is elided)
get_base_packages(cfg) ==
    << "base", "linux", "efibootmgr", "mesa" >>
    \o (IF cfg.bootloader # "nmbl" THEN << "grub", "os-prober" >> ELSE << >>)

\* variant: File mode without the 8192 MB cap
swap_size_uncapped(mode, ram_mb) ==
    CASE mode = "None"    -> 0
      [] mode = "Small"   -> ram_mb \div 2
      [] mode = "Suspend" -> ram_mb
      [] mode = "File"    -> ram_mb

\* setup_swap: the size handed to create_swap_file
swap_size(mode, ram_mb) ==
    CASE mode = "None"    -> 0
      [] mode = "Small"   -> ram_mb \div 2
      [] mode = "Suspend" -> ram_mb
      [] mode = "File"    -> IF ram_mb < 8192 THEN ram_mb ELSE 8192

\* one logged command
L(op, arg, res) == [op |-> op, arg |-> arg, res |-> res]

\* the exit status of a command whose result the code drops
dropped(ok) == IF ok THEN "ok" ELSE "fail"

\* what the environment answers to the four commands of create_swap_file;
\* left says whether dd left a file behind.  A dd that succeeded left one,
\* and chmod and mkswap fail on a file that is not there.
SwapOutcomes ==
    { out \in [dd : BOOLEAN, left : BOOLEAN, chmod : BOOLEAN,
               mkswap : BOOLEAN, append : BOOLEAN] :
        /\ out.dd => out.left
        /\ ~out.left => (~out.chmod /\ ~out.mkswap) }

\* the commands of an outcome that fail on their own account (chmod and
\* mkswap failing for want of the file follow from dd's failure)
Faults(out) ==
    (IF out.dd THEN 0 ELSE 1)
    + (IF out.left /\ ~out.chmod THEN 1 ELSE 0)
    + (IF out.left /\ ~out.mkswap THEN 1 ELSE 0)
    + (IF out.append THEN 0 ELSE 1)

\* <mount_point>/swapfile after the commands of log ran: dd decides
swapfile_after(log, out, before) ==
    IF \E i \in 1..Len(log) : log[i].op = "dd swapfile"
    THEN out.left
    ELSE before

SWAP_CREATED == << "swap file created and configured" >>

\* variant: the early return on a zero size is missing
create_swap_file_no_guard(size_mb, out) ==
    << L("dd swapfile", MOUNT_POINT, dropped(out.dd)),
       L("chmod 600 swapfile", MOUNT_POINT, dropped(out.chmod)),
       L("chroot mkswap", NoArg, dropped(out.mkswap)),
       L("append fstab swap", MOUNT_POINT, dropped(out.append)),
       L("print_success", SWAP_CREATED, "ignored") >>

\* create_swap_file: the commands in issue order with the status each one
\* had (none is tested), then the message printed
create_swap_file(size_mb, out) ==
    IF size_mb = 0
    THEN << >>
    ELSE << L("dd swapfile", MOUNT_POINT, dropped(out.dd)),
            L("chmod 600 swapfile", MOUNT_POINT, dropped(out.chmod)),
            L("chroot mkswap", NoArg, dropped(out.mkswap)),
            L("append fstab swap", MOUNT_POINT, dropped(out.append)),
            L("print_success", SWAP_CREATED, "ignored") >>

\* setup_swap: mode None never calls create_swap_file
setup_swap(mode, ram_mb, out) ==
    IF mode = "None"
    THEN << >>
    ELSE create_swap_file(swap_size(mode, ram_mb), out)

\* configure_system: the commands before setup_swap, in issue order
configure_system_body(cfg) ==
    << C("chroot ln localtime", NoArg, FALSE),
       C("chroot hwclock", NoArg, FALSE),
       C("write hostname", MOUNT_POINT, FALSE),
       C("write hosts", MOUNT_POINT, FALSE),
       C("chroot systemctl enable NetworkManager", NoArg, FALSE),
       C("chroot systemctl enable sddm", NoArg, FALSE),
       C("chroot systemctl enable cups", NoArg, FALSE) >>

\* variant: every path is split at its trailing digit run
split_efi_part_digits_only(efi_part) ==
    LET num_start ==
            CHOOSE k \in 1..(Len(efi_part) + 1) :
                /\ \A j \in k..Len(efi_part) : is_ascii_digit(efi_part[j])
                /\ k > 1 => ~is_ascii_digit(efi_part[k - 1])
    IN  [disk  |-> Slice(efi_part, 1, num_start - 1),
         part  |-> Slice(efi_part, num_start, Len(efi_part)),
         panic |-> FALSE]

\* install_bootloader, lines 737-761: split the EFI partition path into the
\* disk and the partition number; panic models the out-of-range slice
split_efi_part(efi_part) ==
    IF is_nvme(efi_part)
    THEN LET found == rfind(efi_part, "p")
             p_pos == IF found = 0 THEN Len(efi_part) + 1 ELSE found
         IN  IF p_pos + 1 > Len(efi_part) + 1
             THEN [disk  |-> Slice(efi_part, 1, p_pos - 1),
                   part  |-> <<>>,
                   panic |-> TRUE]
             ELSE [disk  |-> Slice(efi_part, 1, p_pos - 1),
                   part  |-> Slice(efi_part, p_pos + 1, Len(efi_part)),
                   panic |-> FALSE]
    ELSE LET num_start ==
                 CHOOSE k \in 1..(Len(efi_part) + 1) :
                     /\ \A j \in k..Len(efi_part) : is_ascii_digit(efi_part[j])
                     /\ k > 1 => ~is_ascii_digit(efi_part[k - 1])
         IN  [disk  |-> Slice(efi_part, 1, num_start - 1),
              part  |-> Slice(efi_part, num_start, Len(efi_part)),
              panic |-> FALSE]

\* variant: the firmware check of the direct-boot request is missing
boot_path_no_firmware_check(cfg, firmware_uefi) ==
    IF cfg.bootloader = "nmbl" THEN "DirectBoot" ELSE "Conventional"

\* install_bootloader, lines 700-706: which path the step takes
boot_path(cfg, firmware_uefi) ==
    IF cfg.bootloader = "nmbl" /\ firmware_uefi
    THEN "DirectBoot"
    ELSE "Conventional"

\* variant: the parameters of the unencrypted case are used throughout
kernel_params_plain(cfg, layout) ==
    [cryptdevice |-> << >>,
     root        |-> [kind |-> "UUID", v |-> layout.root_partition]]

\* install_bootloader, lines 714-726: the root part of the kernel parameters.
\* A UUID is written as the device blkid was asked about.
kernel_params(cfg, layout) ==
    IF cfg.use_encryption
    THEN [cryptdevice |-> << [uuid_of |-> layout.root_partition,
                              name    |-> "cryptroot"] >>,
          root        |-> [kind |-> "path", v |-> CRYPTROOT]]
    ELSE [cryptdevice |-> << >>,
          root        |-> [kind |-> "UUID", v |-> layout.root_partition]]

\* install_bootloader, DirectBoot path up to the firmware entry
direct_boot_body(cfg, layout) ==
    << C("blkid", layout.root_partition, FALSE),
       C("chroot mkdir ESP", NoArg, FALSE),
       C("chroot cp vmlinuz", NoArg, FALSE),
       C("chroot cp initramfs", NoArg, FALSE),
       C("efibootmgr",
         << split_efi_part(layout.efi_partition).disk,
            split_efi_part(layout.efi_partition).part,
            kernel_params(cfg, layout) >>,
         TRUE) >>

\* install_bootloader, DirectBoot path after the firmware entry
direct_boot_hook ==
    << C("mkdir hooks", MOUNT_POINT, FALSE),
       C("write upgrade hook", MOUNT_POINT, FALSE),
       C("write nmbl-update", MOUNT_POINT, FALSE),
       C("chmod nmbl-update", MOUNT_POINT, FALSE) >>

\* install_bootloader, lines 820-841
grub_body(cfg, firmware_uefi) ==
    << (IF firmware_uefi
        THEN C("chroot grub-install efi", NoArg, FALSE)
        ELSE C("chroot grub-install bios", cfg.target_disk, FALSE)),
       C("chroot sed GRUB_TIMEOUT", NoArg, FALSE),
       C("chroot sed GRUB_TIMEOUT_STYLE", NoArg, FALSE),
       C("chroot grep GRUB_TIMEOUT_STYLE", NoArg, FALSE),
       C("chroot grub-mkconfig", NoArg, FALSE) >>

\* the commands only the DirectBoot path issues
DirectBootOps ==
    { "blkid", "chroot mkdir ESP", "chroot cp vmlinuz", "chroot cp initramfs",
      "efibootmgr", "mkdir hooks", "write upgrade hook", "write nmbl-update",
      "chmod nmbl-update" }

\* the commands only the conventional path issues
GrubOps ==
    { "chroot grub-install efi", "chroot grub-install bios",
      "chroot sed GRUB_TIMEOUT", "chroot sed GRUB_TIMEOUT_STYLE",
      "chroot grep GRUB_TIMEOUT_STYLE", "chroot grub-mkconfig" }

----------------------------------------------------------------------------
(* installer.rs: detect_and_install_drivers *)

\* A scan text (lower-cased lspci output) is the set of the signature words
\* it contains; Within(w) are the needles that occur inside the word w.
Within(w) == IF w = "[amd/ati]" THEN {"[amd/ati]", "amd"} ELSE {w}

lc_contains(scan, needle) == \E w \in scan : needle \in Within(w)

has_nvidia(scan) == lc_contains(scan, "nvidia")

has_amd_gpu(scan) ==
    \/ lc_contains(scan, "[amd/ati]")
    \/ lc_contains(scan, "radeon")
    \/ (lc_contains(scan, "amd") /\ lc_contains(scan, "vga"))

\* variant: the Intel stack is only added when no NVIDIA GPU was found
has_intel_gpu_exclusive(scan) ==
    /\ lc_contains(scan, "intel")
    /\ (lc_contains(scan, "vga") \/ lc_contains(scan, "display"))
    /\ ~has_nvidia(scan)

has_intel_gpu(scan) ==
    /\ lc_contains(scan, "intel")
    /\ (lc_contains(scan, "vga") \/ lc_contains(scan, "display"))

has_broadcom(scan) ==
    /\ lc_contains(scan, "broadcom")
    /\ \/ lc_contains(scan, "wireless")
       \/ lc_contains(scan, "network")
       \/ lc_contains(scan, "bcm43")

\* A package name is the sequence of its pieces, each hyphen kept with the
\* piece before it: lib32-nvidia-utils is <<"lib32-", "nvidia-", "utils">>.
NvidiaStack ==
    << << "nvidia" >>,
       << "nvidia-", "utils" >>,
       << "nvidia-", "settings" >>,
       << "lib32-", "nvidia-", "utils" >>,
       << "libva-", "nvidia-", "driver" >> >>

AmdStack ==
    << << "xf86-", "video-", "amdgpu" >>,
       << "vulkan-", "radeon" >>,
       << "lib32-", "vulkan-", "radeon" >>,
       << "libva-", "mesa-", "driver" >>,
       << "lib32-", "libva-", "mesa-", "driver" >>,
       << "mesa-", "vdpau" >> >>

IntelStack ==
    << << "vulkan-", "intel" >>,
       << "lib32-", "vulkan-", "intel" >>,
       << "intel-", "media-", "driver" >> >>

BroadcomStack == << << "broadcom-", "wl-", "dkms" >> >>

LIB32 == << "lib32-" >>

\* p.starts_with("lib32-")
starts_with_lib32(p) ==
    Len(p) >= Len(LIB32) /\ SubSeq(p, 1, Len(LIB32)) = LIB32

\* variant: the network package is pushed before the GPU stacks
driver_packages_network_first(scan) ==
    (IF has_broadcom(scan) THEN BroadcomStack ELSE << >>)
    \o (IF has_nvidia(scan) THEN NvidiaStack ELSE << >>)
    \o (IF has_amd_gpu(scan) THEN AmdStack ELSE << >>)
    \o (IF has_intel_gpu(scan) THEN IntelStack ELSE << >>)

driver_packages(scan) ==
    (IF has_nvidia(scan) THEN NvidiaStack ELSE << >>)
    \o (IF has_amd_gpu(scan) THEN AmdStack ELSE << >>)
    \o (IF has_intel_gpu(scan) THEN IntelStack ELSE << >>)
    \o (IF has_broadcom(scan) THEN BroadcomStack ELSE << >>)

\* variant: all() in place of any()
has_32bit_all(pkgs) == \A i \in 1..Len(pkgs) : starts_with_lib32(pkgs[i])

has_32bit(pkgs) == \E i \in 1..Len(pkgs) : starts_with_lib32(pkgs[i])

\* what the resolution part of detect_and_install_drivers computes
resolve(scan) ==
    [driver_packages |-> driver_packages(scan),
     has_32bit       |-> has_32bit(driver_packages(scan))]

lib32_pkgs(pkgs) == SelectSeq(pkgs, starts_with_lib32)

\* pacman.conf as the driver step reads it: whether it contains the text
\* "[multilib]" and whether it contains the text "#[multilib]"
PacmanConfs ==
    { [multilib |-> FALSE, commented |-> FALSE],
      [multilib |-> TRUE,  commented |-> TRUE],
      [multilib |-> TRUE,  commented |-> FALSE] }

\* variant: the repository is enabled again whatever pacman.conf says
needs_multilib_always(conf) == TRUE

needs_multilib(conf) == ~conf.multilib \/ conf.commented

\* detect_and_install_drivers: the commands in issue order; pacman_ok is the
\* status of the first pacman call, which only selects the message printed
drivers_log(scan, conf, pacman_ok) ==
    << L("lspci", NoArg, "ignored") >>
    \o (IF driver_packages(scan) # << >>
        THEN << L("chroot pacman -S", driver_packages(scan),
                  IF pacman_ok THEN "ok" ELSE "fail") >>
        ELSE << >>)
    \o (IF has_32bit(driver_packages(scan))
        THEN << L("cat pacman.conf", MOUNT_POINT, "ignored") >>
             \o (IF needs_multilib(conf)
                 THEN << L("chroot sed multilib", NoArg, "ignored"),
                         L("chroot pacman -Sy", NoArg, "ignored") >>
                      \o (IF lib32_pkgs(driver_packages(scan)) # << >>
                          THEN << L("chroot pacman -S lib32",
                                    lib32_pkgs(driver_packages(scan)),
                                    "ignored") >>
                          ELSE << >>)
                 ELSE << >>)
        ELSE << >>)

\* the scan texts the pipeline is run against
Scans ==
    { {},
      {"nvidia", "vga"},
      {"intel", "vga", "broadcom", "bcm43"},
      {"realtek", "rtl8"} }

\* values get_ram_mb() returns (4096 is also its fallback)
RamValues == {4096, 16384}

----------------------------------------------------------------------------
(* installer.rs: the pipeline *)

\* the pure-function checks at rest
\* toml_root.disk is None
Absent == [disk |-> FALSE, swap |-> << >>]

SizingIdle == swap_in = [mode |-> "None", ram_mb |-> 0] /\ swap_out = << >>

ResolveIdle ==
    /\ scan_text = {}
    /\ resolved = << >>
    /\ pacman_conf = [multilib |-> FALSE, commented |-> FALSE]

ParseIdle == swap_setting = Absent /\ swap_parsed = ""

\* LocaleConfig::default, config.rs line 62
default_keyboards == << <<"u", "s">> >>

NoFile == [file |-> "absent", keyboard |-> << >>]

KeyboardIdle ==
    /\ toml_file = NoFile
    /\ loaded_from_file = FALSE
    /\ keyboards = default_keyboards
    /\ keyboard_step = ""

NoSplit == [disk |-> <<>>, part |-> <<>>, panic |-> FALSE]

\* Installer::new, and the environment the run starts in
Init ==
    /\ config \in [target_disk    : get_disks,
                   use_encryption : BOOLEAN,
                   bootloader     : Bootloaders,
                   swap           : SwapModes]
    /\ uefi \in BOOLEAN
    /\ error_message = ""
    /\ partition_layout = [efi_partition  |-> <<>>,
                           root_partition |-> <<>>,
                           scheme         |-> "GptUefi"]
    /\ layout_returned = FALSE
    /\ cryptroot_exists \in BOOLEAN
    /\ root_mounted = <<>>
    /\ pc = "partition_disk"
    /\ steps = <<>>
    /\ cmds = <<>>
    /\ ret = "running"
    /\ swapfile = FALSE
    /\ split_in = <<>>
    /\ split_out = NoSplit
    /\ SizingIdle
    /\ ResolveIdle
    /\ ParseIdle
    /\ KeyboardIdle

\* install(): the call that follows a step that returned success
next_call(step) ==
    LET i == CHOOSE k \in 1..Len(StepOrder) : StepOrder[k] = step
    IN  IF i = Len(StepOrder) THEN "done" ELSE StepOrder[i + 1]

\* variant: a failed step does not end the run
on_failure_continue(step) == next_call(step)

\* install(): what a step's failure does to the run
on_failure(step) == "done"

\* a step returned true
StepOk(step) ==
    /\ steps' = Append(steps, [name |-> step, res |-> "ok"])
    /\ pc' = next_call(step)
    /\ ret' = IF next_call(step) = "done" THEN "true" ELSE ret

\* a step returned false
StepFail(step) ==
    /\ steps' = Append(steps, [name |-> step, res |-> "fail"])
    /\ pc' = on_failure(step)
    /\ ret' = IF on_failure(step) = "done" THEN "false" ELSE ret

\* prepare_disk, lines 144-169: the message stored when a stage fails
prepare_disk_error(stage) ==
    CASE stage = "partition_disk"    -> "Failed to partition disk"
      [] stage = "format_partitions" -> "Failed to format partitions"
      [] stage = "mount_partitions"  -> "Failed to mount partitions"

\* variant: the MBR scheme is planned whatever the firmware
plan_mbr_always(firmware_uefi) == "MbrBios"

\* prepare_disk: the scheme handed to partition_disk
plan(firmware_uefi) == IF firmware_uefi THEN "GptUefi" ELSE "MbrBios"

\* variant: prepare_disk goes on to format after partition_disk failed
after_partition_no_return(returned_some) == "format_partitions"

\* prepare_disk, lines 144-152: what follows partition_disk
after_partition(returned_some) ==
    IF returned_some THEN "format_partitions" ELSE "return false"

\* variant: a wipefs failure makes partition_disk give up
partition_returns_wipe_fatal(wipe_ok, failIdx) == wipe_ok /\ failIdx = 0

\* partition_disk: Some(layout) is returned when no creation command failed;
\* the wipefs status only selects a warning (lines 113-115)
partition_returns(wipe_ok, failIdx) == failIdx = 0

\* prepare_disk calling partition_disk
PartitionDisk ==
    /\ pc = "partition_disk"
    /\ \E stale \in 0..MaxStale, closed \in BOOLEAN, wipe_ok \in BOOLEAN,
          failIdx \in FailPoints(partition_create(config.target_disk,
                                                  plan(is_uefi))) :
         LET disk   == config.target_disk
             scheme == plan(is_uefi)
         IN  /\ closed => cryptroot_exists
             /\ cryptroot_exists' = (cryptroot_exists /\ ~closed)
             /\ cmds' = cmds
                    \o Issued(partition_cleanup(disk, stale), 0)
                    \o << L("wipefs", disk, IF wipe_ok THEN "ok" ELSE "fail") >>
                    \o Issued(partition_settle(disk), 0)
                    \o Issued(partition_create(disk, scheme), failIdx)
                    \o (IF failIdx = 0
                        THEN Issued(partition_settle(disk), 0)
                        ELSE << >>)
             /\ IF partition_returns(wipe_ok, failIdx)
                THEN /\ partition_layout' = derive_names(disk, scheme)
                     /\ layout_returned' = TRUE
                ELSE UNCHANGED <<partition_layout, layout_returned>>
             /\ IF after_partition(partition_returns(wipe_ok, failIdx))
                   = "format_partitions"
                THEN /\ pc' = "format_partitions"
                     /\ UNCHANGED <<error_message, steps, ret>>
                ELSE /\ error_message' = prepare_disk_error("partition_disk")
                     /\ StepFail("prepare_disk")
    /\ UNCHANGED <<config, uefi, root_mounted, swap_state, pure_vars>>

\* variant: the early return after a formatting failure is missing
after_format_no_return(ok) == "mount_partitions"

\* prepare_disk, lines 154-161: what follows format_partitions
after_format(ok) == IF ok THEN "mount_partitions" ELSE "return false"

\* prepare_disk calling format_partitions
FormatPartitions ==
    /\ pc = "format_partitions"
    /\ LET body == format_body(partition_layout, config.use_encryption)
       IN  \E failIdx \in FailPoints(body) :
             \* cryptsetup open fails when the name cryptroot is taken
             /\ (cryptroot_exists /\ PosOf(body, "cryptsetup open") > 0)
                    => failIdx \in 1..PosOf(body, "cryptsetup open")
             /\ cmds' = cmds \o Issued(body, failIdx)
             /\ cryptroot_exists' =
                    (cryptroot_exists
                        \/ Succeeded(body, failIdx, "cryptsetup open"))
             /\ IF after_format(failIdx = 0) = "mount_partitions"
                THEN /\ pc' = "mount_partitions"
                     /\ UNCHANGED <<error_message, steps, ret>>
                ELSE /\ error_message' = prepare_disk_error("format_partitions")
                     /\ StepFail("prepare_disk")
    /\ UNCHANGED <<config, uefi, partition_layout, layout_returned,
                   root_mounted, swap_state, pure_vars>>

\* prepare_disk calling mount_partitions
MountPartitions ==
    /\ pc = "mount_partitions"
    /\ LET body == mount_body(partition_layout, cryptroot_exists)
       IN  \E failIdx \in FailPoints(body) :
             /\ cmds' = cmds \o Issued(body, failIdx)
             /\ root_mounted' =
                    IF Succeeded(body, failIdx, "mount")
                    THEN root_dev(partition_layout, cryptroot_exists)
                    ELSE root_mounted
             /\ IF failIdx = 0
                THEN /\ StepOk("prepare_disk")
                     /\ UNCHANGED error_message
                ELSE /\ error_message' = prepare_disk_error("mount_partitions")
                     /\ StepFail("prepare_disk")
    /\ UNCHANGED <<config, uefi, partition_layout, layout_returned,
                   cryptroot_exists, swap_state, pure_vars>>

\* the variables no step after prepare_disk writes
frozen == <<config, uefi, partition_layout, layout_returned, pure_vars>>

\* install_base_system
InstallBaseSystem ==
    /\ pc = "install_base_system"
    /\ LET body == << C("pacstrap", get_base_packages(config), TRUE) >>
       IN  \E failIdx \in FailPoints(body) :
             /\ cmds' = cmds \o Issued(body, failIdx)
             /\ IF failIdx = 0
                THEN /\ StepOk("install_base_system")
                     /\ UNCHANGED error_message
                ELSE /\ error_message' = "pacstrap failed"
                     /\ StepFail("install_base_system")
    /\ UNCHANGED <<frozen, swap_state, cryptroot_exists, root_mounted>>

\* install(), lines 84-89, calling disk::generate_fstab
GenerateFstab ==
    /\ pc = "generate_fstab"
    /\ LET body == << C("genfstab", MOUNT_POINT, TRUE) >>
       IN  \E failIdx \in FailPoints(body) :
             /\ cmds' = cmds \o Issued(body, failIdx)
             /\ IF failIdx = 0
                THEN /\ StepOk("generate_fstab")
                     /\ UNCHANGED error_message
                ELSE /\ error_message' = "Failed to generate fstab"
                     /\ StepFail("generate_fstab")
    /\ UNCHANGED <<frozen, swap_state, cryptroot_exists, root_mounted>>

\* variant: configure_system reports failure when a swap command failed
configure_system_returns_swap_status(swap_failed) == ~swap_failed

\* configure_system, line 404: true, whatever the commands answered
configure_system_returns(swap_failed) == TRUE

\* configure_system, with setup_swap and create_swap_file
ConfigureSystem ==
    /\ pc = "configure_system"
    /\ \E ram_mb \in RamValues, out \in SwapOutcomes :
         /\ Faults(out) <= MaxSwapFaults
         /\ cmds' = cmds \o Issued(configure_system_body(config), 0)
                         \o setup_swap(config.swap, ram_mb, out)
         /\ swapfile' = swapfile_after(setup_swap(config.swap, ram_mb, out),
                                       out, swapfile)
         /\ IF configure_system_returns(
                  \E i \in 1..Len(setup_swap(config.swap, ram_mb, out)) :
                      setup_swap(config.swap, ram_mb, out)[i].res = "fail")
            THEN StepOk("configure_system")
            ELSE StepFail("configure_system")
    /\ UNCHANGED <<frozen, sizing_vars, error_message, cryptroot_exists,
                   root_mounted>>

\* variant: install() gives up when the driver packages failed to install
after_drivers_checked(pacman_ok) ==
    IF pacman_ok THEN "install_packages" ELSE "return false"

\* install(), lines 97-102: detect_and_install_drivers returns nothing, so
\* the call is followed by install_packages whatever pacman answered
after_drivers(pacman_ok) == "install_packages"

\* detect_and_install_drivers returns nothing
DetectAndInstallDrivers ==
    /\ pc = "detect_and_install_drivers"
    /\ \E scan \in Scans, conf \in PacmanConfs, pacman_ok \in BOOLEAN :
         /\ driver_packages(scan) = << >> => pacman_ok
         /\ ~has_32bit(driver_packages(scan)) => conf = [multilib |-> FALSE,
                                                         commented |-> FALSE]
         /\ cmds' = cmds \o drivers_log(scan, conf, pacman_ok)
         /\ IF after_drivers(pacman_ok) = "install_packages"
            THEN /\ steps' = Append(steps,
                                    [name |-> "detect_and_install_drivers",
                                     res  |-> "unit"])
                 /\ pc' = next_call("detect_and_install_drivers")
                 /\ UNCHANGED ret
            ELSE StepFail("detect_and_install_drivers")
    /\ UNCHANGED <<frozen, swap_state, error_message, cryptroot_exists,
                   root_mounted>>

\* install_packages
InstallPackages ==
    /\ pc = "install_packages"
    /\ StepOk("install_packages")
    /\ UNCHANGED <<frozen, swap_state, error_message, cryptroot_exists, root_mounted, cmds>>

\* configure_locale
ConfigureLocale ==
    /\ pc = "configure_locale"
    /\ cmds' = cmds \o Issued(<< C("append locale.gen", MOUNT_POINT, FALSE),
                                 C("chroot locale-gen", NoArg, FALSE),
                                 C("write locale.conf", MOUNT_POINT, FALSE),
                                 C("write vconsole.conf", MOUNT_POINT, FALSE) >>,
                              0)
    /\ StepOk("configure_locale")
    /\ UNCHANGED <<frozen, swap_state, error_message, cryptroot_exists, root_mounted>>

\* configure_input_method
ConfigureInputMethod ==
    /\ pc = "configure_input_method"
    /\ cmds' = cmds \o Issued(<< C("mkdir environment.d", MOUNT_POINT, FALSE),
                                 C("write input-method.conf", MOUNT_POINT,
                                   FALSE) >>,
                              0)
    /\ StepOk("configure_input_method")
    /\ UNCHANGED <<frozen, swap_state, error_message, cryptroot_exists, root_mounted>>

\* configure_users
ConfigureUsers ==
    /\ pc = "configure_users"
    /\ cmds' = cmds \o Issued(<< C("chroot chpasswd root", NoArg, FALSE),
                                 C("chroot useradd", NoArg, FALSE),
                                 C("chroot chpasswd user", NoArg, FALSE),
                                 C("write sudoers", MOUNT_POINT, FALSE),
                                 C("chmod sudoers", MOUNT_POINT, FALSE),
                                 C("write autologin.conf", MOUNT_POINT,
                                   FALSE) >>,
                              0)
    /\ StepOk("configure_users")
    /\ UNCHANGED <<frozen, swap_state, error_message, cryptroot_exists, root_mounted>>

\* variant: the status of efibootmgr is discarded
direct_boot_returns_always(entry_ok) == TRUE

\* install_bootloader, lines 772-775 and 816: the result of the DirectBoot
\* path, given the status of the efibootmgr call
direct_boot_returns(entry_ok) == entry_ok

\* install_bootloader
InstallBootloader ==
    /\ pc = "install_bootloader"
    /\ IF boot_path(config, is_uefi) = "DirectBoot"
       THEN IF split_efi_part(partition_layout.efi_partition).panic
            THEN /\ cmds' = cmds
                        \o Issued(SubSeq(direct_boot_body(config,
                                                          partition_layout),
                                         1, 4), 0)
                 /\ pc' = "done"
                 /\ ret' = "panic"
                 /\ UNCHANGED steps
            ELSE LET body == direct_boot_body(config, partition_layout)
                 IN  \E failIdx \in FailPoints(body) :
                       IF direct_boot_returns(failIdx = 0)
                       THEN /\ cmds' = cmds \o Issued(body, failIdx)
                                            \o Issued(direct_boot_hook, 0)
                            /\ StepOk("install_bootloader")
                       ELSE /\ cmds' = cmds \o Issued(body, failIdx)
                            /\ StepFail("install_bootloader")
       ELSE /\ cmds' = cmds \o Issued(grub_body(config, is_uefi), 0)
            /\ StepOk("install_bootloader")
    /\ UNCHANGED <<frozen, swap_state, error_message, cryptroot_exists, root_mounted>>

\* finalize, ending in disk::unmount_partitions
Finalize ==
    /\ pc = "finalize"
    /\ \E closed \in BOOLEAN :
         /\ closed => cryptroot_exists
         /\ cryptroot_exists' = (cryptroot_exists /\ ~closed)
    /\ \E unmounted \in BOOLEAN :
         root_mounted' = IF unmounted THEN <<>> ELSE root_mounted
    /\ cmds' = cmds
           \o Issued(<< C("copy branding", MOUNT_POINT, FALSE),
                        C("write install scripts", MOUNT_POINT, FALSE),
                        C("write syschk script", MOUNT_POINT, FALSE),
                        C("chown home", MOUNT_POINT, FALSE),
                        C("chmod home", MOUNT_POINT, FALSE) >>, 0)
           \o Issued(unmount_body, 0)
    /\ StepOk("finalize")
    /\ UNCHANGED <<frozen, swap_state, error_message>>

----------------------------------------------------------------------------
(* Specifications *)

Next ==
    \/ PartitionDisk
    \/ FormatPartitions
    \/ MountPartitions
    \/ InstallBaseSystem
    \/ GenerateFstab
    \/ ConfigureSystem
    \/ DetectAndInstallDrivers
    \/ InstallPackages
    \/ ConfigureLocale
    \/ ConfigureInputMethod
    \/ ConfigureUsers
    \/ InstallBootloader
    \/ Finalize

Spec == Init /\ [][Next]_vars

\* The boot-entry split as a function of its input alone: the input ranges
\* over partition paths with and without a p separator.
SplitDigits == {"0", "1", "2"}

DigitRuns ==
    UNION {[1..n -> SplitDigits] : n \in 1..MaxDigits}

PartPaths ==
    {d \o sep \o run : d \in get_disks, sep \in {<<>>, <<"p">>},
                       run \in DigitRuns}

SplitInit ==
    /\ config = [target_disk    |-> Dev \o <<"s", "d", "a">>,
                 use_encryption |-> FALSE,
                 bootloader     |-> "nmbl",
                 swap           |-> "Suspend"]
    /\ uefi = TRUE
    /\ error_message = ""
    /\ partition_layout = [efi_partition  |-> <<>>,
                           root_partition |-> <<>>,
                           scheme         |-> "GptUefi"]
    /\ layout_returned = FALSE
    /\ cryptroot_exists = FALSE
    /\ root_mounted = <<>>
    /\ pc = "split"
    /\ steps = <<>>
    /\ cmds = <<>>
    /\ ret = "running"
    /\ swapfile = FALSE
    /\ split_in \in PartPaths
    /\ split_out = NoSplit
    /\ SizingIdle
    /\ ResolveIdle
    /\ ParseIdle
    /\ KeyboardIdle

SplitApply ==
    /\ pc = "split"
    /\ split_out' = split_efi_part(split_in)
    /\ pc' = "split done"
    /\ UNCHANGED <<installer_vars_but_pc, split_in, sizing_vars, resolve_vars,
                   parse_vars, keyboard_vars>>

NextSplit == SplitApply

SpecSplit == SplitInit /\ [][NextSplit]_vars

----------------------------------------------------------------------------
(* setup_swap, applied to every mode and sampled RAM size, with every     *)
(* outcome of the commands of create_swap_file                            *)

\* the installer before install() is called, nothing run yet
InstallerIdle ==
    /\ config = [target_disk    |-> Dev \o <<"s", "d", "a">>,
                 use_encryption |-> FALSE,
                 bootloader     |-> "nmbl",
                 swap           |-> "Suspend"]
    /\ uefi = TRUE
    /\ error_message = ""
    /\ partition_layout = [efi_partition  |-> <<>>,
                           root_partition |-> <<>>,
                           scheme         |-> "GptUefi"]
    /\ layout_returned = FALSE
    /\ cryptroot_exists = FALSE
    /\ root_mounted = <<>>
    /\ steps = <<>>
    /\ cmds = <<>>
    /\ ret = "running"

\* what `free -m` can report: tiny values, the fallback, both sides of the cap
RamSamples == (0..MaxSmallRam) \cup {4096, 8191, 8192, 8193, 16384}

SwapInit ==
    /\ InstallerIdle
    /\ swapfile = FALSE
    /\ pc = "swap"
    /\ split_in = <<>>
    /\ split_out = NoSplit
    /\ swap_in \in [mode : SwapModes, ram_mb : RamSamples]
    /\ swap_out = << >>
    /\ ResolveIdle
    /\ ParseIdle
    /\ KeyboardIdle

SwapApply ==
    /\ pc = "swap"
    /\ swap_out' = << swap_size(swap_in.mode, swap_in.ram_mb) >>
    /\ \E out \in SwapOutcomes :
         /\ cmds' = setup_swap(swap_in.mode, swap_in.ram_mb, out)
         /\ swapfile' = swapfile_after(
                            setup_swap(swap_in.mode, swap_in.ram_mb, out),
                            out, swapfile)
    /\ pc' = "swap done"
    /\ UNCHANGED <<config, uefi, error_message, partition_layout,
                   layout_returned, cryptroot_exists, root_mounted, steps,
                   ret, split_vars, swap_in, resolve_vars, parse_vars, keyboard_vars>>

NextSwap == SwapApply

SpecSwap == SwapInit /\ [][NextSwap]_vars

----------------------------------------------------------------------------
(* The driver resolution, applied repeatedly to every scan text over the   *)
(* words the detection looks for                                           *)

\* the needles of lines 490-535 as words of the lower-cased lspci output
Vocabulary ==
    { "nvidia", "[amd/ati]", "radeon", "amd", "vga", "intel", "display",
      "broadcom", "wireless", "network", "bcm43", "realtek", "rtl8" }

ResolveInit ==
    /\ InstallerIdle
    /\ swapfile = FALSE
    /\ pc = "resolve"
    /\ split_in = <<>>
    /\ split_out = NoSplit
    /\ SizingIdle
    /\ scan_text \in SUBSET Vocabulary
    /\ resolved = << >>
    /\ pacman_conf = [multilib |-> FALSE, commented |-> FALSE]
    /\ ParseIdle
    /\ KeyboardIdle

Resolve ==
    /\ pc = "resolve"
    /\ Len(resolved) < MaxResolutions
    /\ resolved' = Append(resolved, resolve(scan_text))
    /\ UNCHANGED <<installer_vars_but_pc, pc, split_vars, sizing_vars,
                   scan_text, pacman_conf, parse_vars, keyboard_vars>>

\* the rest of detect_and_install_drivers, run on scan_text against every
\* pacman.conf and with either answer of the first pacman call
InstallDrivers ==
    /\ pc = "resolve"
    /\ Len(resolved) >= 1
    /\ \E conf \in PacmanConfs, pacman_ok \in BOOLEAN :
         /\ driver_packages(scan_text) = << >> => pacman_ok
         /\ pacman_conf' = conf
         /\ cmds' = drivers_log(scan_text, conf, pacman_ok)
    /\ pc' = "resolve done"
    /\ UNCHANGED <<config, uefi, error_message, partition_layout,
                   layout_returned, cryptroot_exists, root_mounted, steps,
                   ret, swapfile, split_vars, sizing_vars, scan_text,
                   resolved, parse_vars, keyboard_vars>>

NextResolve == Resolve \/ InstallDrivers

SpecResolve == ResolveInit /\ [][NextResolve]_vars

----------------------------------------------------------------------------
(* Config::load's reading of [disk] swap, applied to every spelling of the *)
(* four labels, to strings that are no label, and to a missing setting     *)

RECURSIVE Spellings(_)
\* every upper/lower-case spelling of a lower-case word
Spellings(word) ==
    IF word = << >>
    THEN { << >> }
    ELSE { << c >> \o rest :
             c \in { word[1] }
                   \cup { Cases[k][2] : k \in { j \in 1..Len(Cases) :
                                                 Cases[j][1] = word[1] } },
             rest \in Spellings(Tail(word)) }

\* strings that spell no label
NoLabels ==
    { << >>,
      <<"o", "f", "f">>,
      <<"n", "o", "n">>,
      <<"n", "o", "n", "e", "e">>,
      <<" ", "n", "o", "n", "e">>,
      <<"f", "i", "l", "e", " ">>,
      <<"F", "I", "L", "E", "S">>,
      <<"s", "w", "a", "p">>,
      <<"0">>,
      <<"s", "m", "a", "1", "1">> }

SwapStrings ==
    Spellings(LABEL_NONE) \cup Spellings(LABEL_SMALL)
        \cup Spellings(LABEL_SUSPEND) \cup Spellings(LABEL_FILE)
        \cup NoLabels

\* toml_root.disk as the parser can deliver it
TomlDisks ==
    { Absent, [disk |-> TRUE, swap |-> << >>] }
        \cup { [disk |-> TRUE, swap |-> << str >>] : str \in SwapStrings }

ParseInit ==
    /\ InstallerIdle
    /\ swapfile = FALSE
    /\ pc = "parse"
    /\ split_in = <<>>
    /\ split_out = NoSplit
    /\ SizingIdle
    /\ ResolveIdle
    /\ swap_setting \in TomlDisks
    /\ swap_parsed = ""
    /\ KeyboardIdle

ParseApply ==
    /\ pc = "parse"
    /\ swap_parsed' = load_swap(swap_setting)
    /\ pc' = "parse done"
    /\ UNCHANGED <<installer_vars_but_pc, split_vars, sizing_vars,
                   resolve_vars, swap_setting, keyboard_vars>>

NextParse == ParseApply

SpecParse == ParseInit /\ [][NextParse]_vars

----------------------------------------------------------------------------
(* main(): Config::load of the [locale] keyboard array, then step 6 of    *)
(* interactive_setup                                                       *)

\* interactive_setup, lines 187-195: the menu of step 6
kb_options ==
    << <<"u", "s", " ", "-", " ", "U", "S", " ", "E", "n", "g", "l", "i",
         "s", "h">>,
       <<"k", "r", " ", "-", " ", "K", "o", "r", "e", "a", "n">>,
       <<"j", "p", " ", "-", " ", "J", "a", "p", "a", "n", "e", "s", "e">>,
       <<"g", "b", " ", "-", " ", "U", "K", " ", "E", "n", "g", "l", "i",
         "s", "h">>,
       <<"d", "e", " ", "-", " ", "G", "e", "r", "m", "a", "n">>,
       <<"f", "r", " ", "-", " ", "F", "r", "e", "n", "c", "h">>,
       <<"s", "e", " ", "-", " ", "S", "w", "e", "d", "i", "s", "h">> >>

\* line 197: &kb_options[kb_idx][..2]
kb_code(option) == Slice(option, 1, 2)

\* layout codes a config.toml can name
KeyboardCodes == { kb_code(kb_options[i]) : i \in 1..Len(kb_options) }

\* the arrays `keyboard = [...]` can hold, the empty one included
KeyboardLists == UNION { [1..n -> KeyboardCodes] : n \in 0..MaxKeyboards }

\* the config file main() finds: none, one toml rejects, or one it parses,
\* with or without a keyboard key in [locale]
TomlFiles ==
    { NoFile,
      [file |-> "unparsable", keyboard |-> << >>],
      [file |-> "ok", keyboard |-> << >>] }
        \cup { [file |-> "ok", keyboard |-> << list >>] :
                 list \in KeyboardLists }

\* Config::load, lines 383-385: the array of the file replaces the default
load_keyboards(toml) ==
    IF toml.keyboard = << >> THEN default_keyboards ELSE toml.keyboard[1]

KeyboardInit ==
    /\ InstallerIdle
    /\ swapfile = FALSE
    /\ pc = "load"
    /\ split_in = <<>>
    /\ split_out = NoSplit
    /\ SizingIdle
    /\ ResolveIdle
    /\ ParseIdle
    /\ toml_file \in TomlFiles
    /\ loaded_from_file = FALSE
    /\ keyboards = default_keyboards
    /\ keyboard_step = ""

\* main(), lines 329-352: the default configuration, replaced by the one
\* Config::load returns
LoadConfig ==
    /\ pc = "load"
    /\ IF toml_file.file = "ok"
       THEN /\ keyboards' = load_keyboards(toml_file)
            /\ loaded_from_file' = TRUE
       ELSE /\ keyboards' = default_keyboards
            /\ loaded_from_file' = FALSE
    /\ pc' = "keyboard"
    /\ UNCHANGED <<installer_vars_but_pc, split_vars, sizing_vars,
                   resolve_vars, parse_vars, toml_file, keyboard_step>>

\* interactive_setup, lines 184-204: step 6
KeyboardStep ==
    /\ pc = "keyboard"
    /\ IF ~loaded_from_file /\ keyboards = << >>
       THEN \E kb_idx \in 0..(Len(kb_options) - 1) :
              /\ keyboards' = << kb_code(kb_options[kb_idx + 1]) >>
              /\ keyboard_step' = "prompted"
       ELSE /\ keyboard_step' = IF keyboards = << >>
                                THEN "panic"
                                ELSE "printed"
            /\ UNCHANGED keyboards
    /\ pc' = "keyboard done"
    /\ UNCHANGED <<installer_vars_but_pc, split_vars, sizing_vars,
                   resolve_vars, parse_vars, toml_file, loaded_from_file>>

NextKeyboard == LoadConfig \/ KeyboardStep

SpecKeyboard == KeyboardInit /\ [][NextKeyboard]_vars

----------------------------------------------------------------------------
(* Properties *)

StepNames == {steps[i].name : i \in 1..Len(steps)}

Returned(step, res) ==
    \E i \in 1..Len(steps) : steps[i].name = step /\ steps[i].res = res

FormatOps ==
    {"mkfs.fat", "cryptsetup luksFormat", "cryptsetup open", "mkfs.ext4"}

FormatFailed ==
    \E i \in 1..Len(cmds) : cmds[i].op \in FormatOps /\ cmds[i].res = "fail"

RootWasMounted ==
    \E i \in 1..Len(cmds) : cmds[i].op = "mount" /\ cmds[i].res = "ok"

EntryFailed ==
    \E i \in 1..Len(cmds) : cmds[i].op = "efibootmgr" /\ cmds[i].res = "fail"

\* C1: when a command of format_partitions fails, that command is the last
\* one the run issues (no mount, pacstrap, genfstab, configuration, driver,
\* bootloader or finalize command follows), prepare_disk is the only step
\* that returned and it returned failure, install() has returned false and
\* the stored error is "Failed to format partitions".
C1_FormatFailureAborts ==
    FormatFailed =>
        /\ cmds[Len(cmds)].op \in FormatOps
        /\ cmds[Len(cmds)].res = "fail"
        /\ ~Issuing("mount")
        /\ steps = << [name |-> "prepare_disk", res |-> "fail"] >>
        /\ pc = "done"
        /\ ret = "false"
        /\ error_message = "Failed to format partitions"

C1_Witness ==
    /\ FormatFailed
    /\ ret = "false"
    /\ cmds[Len(cmds)].op = "cryptsetup open"

\* C2: the steps that returned are a prefix of the fixed step order, every
\* step but the last one returned success (driver detection returns
\* nothing), and install() returns true exactly when all eleven steps
\* returned and none failed.
C2_FixedOrder ==
    /\ Len(steps) <= Len(StepOrder)
    /\ \A i \in 1..Len(steps) :
         /\ steps[i].name = StepOrder[i]
         /\ (steps[i].res = "unit") <=>
                (steps[i].name = "detect_and_install_drivers")
         /\ i < Len(steps) => steps[i].res # "fail"
    /\ (ret = "true") <=>
           /\ Len(steps) = Len(StepOrder)
           /\ \A i \in 1..Len(steps) : steps[i].res # "fail"
    /\ (ret = "false") =>
           /\ steps # << >>
           /\ steps[Len(steps)].res = "fail"

C2_Witness ==
    /\ ret = "true"
    /\ Len(steps) = Len(StepOrder)
    /\ steps[Len(steps)].name = "finalize"

\* C3 (as claimed): whenever install() has returned false, the stored error
\* message is not empty.
C3_ErrorStored == (ret = "false") => error_message # ""

\* C4 (as claimed): a run that ended after the root was mounted has issued
\* umount -R on the mount root.
C4_AlwaysUnmounted ==
    (pc = "done" /\ RootWasMounted) => Issuing("umount -R")

\* C4 (amended): umount -R and the closing of cryptroot are issued exactly
\* in the runs in which finalize executed, never in a run that returned
\* false, and only after the root was mounted.
C4_UnmountOnlyInFinalize ==
    /\ Issuing("umount -R") <=> "finalize" \in StepNames
    /\ Issuing("umount -R") =>
           /\ RootWasMounted
           /\ cmds[Len(cmds)].op = "cryptsetup close"
           /\ cmds[Len(cmds) - 1].op = "umount -R"
    /\ (ret = "false") => ~Issuing("umount -R")
    /\ (ret = "true") => Issuing("umount -R")

C4_Witness ==
    /\ ret = "false"
    /\ RootWasMounted
    /\ root_mounted # <<>>
    /\ ~Issuing("umount -R")

\* C5: with bootloader "nmbl" on BIOS-only firmware no direct-boot command
\* is ever issued, and once the bootloader step has run it has issued
\* grub-install and grub-mkconfig and returned success.
C5_BiosFallsBackToGrub ==
    (config.bootloader = "nmbl" /\ ~uefi) =>
        /\ Ops(cmds) \cap DirectBootOps = {}
        /\ ~Returned("install_bootloader", "fail")
        /\ pc \in {"finalize", "done"} /\ ret # "false" =>
               /\ Returned("install_bootloader", "ok")
               /\ Issuing("chroot grub-install bios")
               /\ Issuing("chroot grub-mkconfig")

C5_Witness ==
    /\ config.bootloader = "nmbl"
    /\ ~uefi
    /\ Returned("install_bootloader", "ok")
    /\ Issuing("chroot grub-mkconfig")
    /\ ret = "true"

\* C6: when efibootmgr fails on the DirectBoot path, the bootloader step
\* returned failure, install() returned false, and finalize did not run
\* (no hook was written, nothing was unmounted).
C6_EntryFailureIsFatal ==
    EntryFailed =>
        /\ config.bootloader = "nmbl" /\ uefi
        /\ steps[Len(steps)] = [name |-> "install_bootloader", res |-> "fail"]
        /\ ret = "false"
        /\ pc = "done"
        /\ "finalize" \notin StepNames
        /\ cmds[Len(cmds)].op = "efibootmgr"

C6_Witness ==
    /\ EntryFailed
    /\ ret = "false"
    /\ Len(steps) = 10

\* the naming rule as the claim states it: a p separator exactly when the
\* disk identifier ends in a digit
ends_in_digit(disk) == is_ascii_digit(disk[Len(disk)])

RuleNames(disk, scheme) ==
    [efi_partition  |-> IF scheme = "GptUefi"
                        THEN (IF ends_in_digit(disk)
                              THEN disk \o <<"p", "1">>
                              ELSE disk \o <<"1">>)
                        ELSE <<>>,
     root_partition |-> IF scheme = "GptUefi"
                        THEN (IF ends_in_digit(disk)
                              THEN disk \o <<"p", "2">>
                              ELSE disk \o <<"2">>)
                        ELSE (IF ends_in_digit(disk)
                              THEN disk \o <<"p", "1">>
                              ELSE disk \o <<"1">>),
     scheme         |-> scheme]

\* C7 (as claimed): the layout a successful partition_disk returned names
\* the partitions <disk>p1, <disk>p2 when the disk identifier ends in a
\* digit and <disk>1, <disk>2 otherwise.
C7_NamingRule ==
    layout_returned =>
        partition_layout = RuleNames(config.target_disk, plan(uefi))

\* C8 (as claimed): in every state, efi_partition is non-empty exactly when
\* the scheme is GptUefi.
C8_EfiIffGpt ==
    (partition_layout.efi_partition # <<>>)
        <=> (partition_layout.scheme = "GptUefi")

\* C8 (amended): in every state reached after partition_disk returned a
\* layout, efi_partition is non-empty exactly when the scheme is GptUefi,
\* and the scheme is the one the firmware mode selects.
C8_EfiIffGptOnceReturned ==
    layout_returned =>
        /\ (partition_layout.efi_partition # <<>>)
               <=> (partition_layout.scheme = "GptUefi")
        /\ partition_layout.scheme = plan(uefi)
        /\ partition_layout.root_partition # <<>>

C8_Witness ==
    /\ layout_returned
    /\ partition_layout.scheme = "MbrBios"
    /\ partition_layout.efi_partition = <<>>
    /\ pc = "format_partitions"

NvmeDisks == {d \in get_disks : is_nvme(d)}

AllDigits(s) == \A i \in 1..Len(s) : is_ascii_digit(s[i])

\* C9: the split of <disk>p<digits>, for an NVMe or MMC disk, is
\* (<disk>, <digits>); the split of a path that names no NVMe or MMC device
\* is the path without its trailing digit run, and that digit run; the
\* three examples of the specification come out as stated.
C9_SplitRule ==
    (pc = "split done") =>
        /\ \A d \in NvmeDisks, run \in DigitRuns :
             split_in = d \o <<"p">> \o run =>
                 /\ ~split_out.panic
                 /\ split_out.disk = d
                 /\ split_out.part = run
        /\ ~is_nvme(split_in) =>
             /\ ~split_out.panic
             /\ split_out.disk \o split_out.part = split_in
             /\ AllDigits(split_out.part)
             /\ split_out.part # <<>>
             /\ ~is_ascii_digit(split_out.disk[Len(split_out.disk)])
        /\ split_in = Dev \o <<"n", "v", "m", "e", "0", "n", "1", "p", "1">> =>
             /\ split_out.disk = Dev \o <<"n", "v", "m", "e", "0", "n", "1">>
             /\ split_out.part = <<"1">>
        /\ split_in = Dev \o <<"s", "d", "a", "1">> =>
             /\ split_out.disk = Dev \o <<"s", "d", "a">>
             /\ split_out.part = <<"1">>
        /\ split_in = Dev \o <<"m", "m", "c", "b", "l", "k", "0", "p", "2">> =>
             /\ split_out.disk = Dev \o <<"m", "m", "c", "b", "l", "k", "0">>
             /\ split_out.part = <<"2">>

C9_Witness ==
    /\ pc = "split done"
    /\ split_in = Dev \o <<"m", "m", "c", "b", "l", "k", "0", "p", "2">>
    /\ split_out.disk = Dev \o <<"m", "m", "c", "b", "l", "k", "0">>
    /\ split_out.part = <<"2">>

\* C10 (as claimed): for the layout partition_disk returned under GptUefi,
\* splitting the EFI partition name gives back the target disk and the
\* partition number 1.
C10_SplitInvertsNaming ==
    (layout_returned /\ partition_layout.scheme = "GptUefi") =>
        /\ split_efi_part(partition_layout.efi_partition).disk
               = config.target_disk
        /\ split_efi_part(partition_layout.efi_partition).part = <<"1">>

\* C11: for every swap mode and RAM size the size used is None -> 0,
\* Small -> ramMB / 2 (integer division), Suspend -> ramMB,
\* File -> min(ramMB, 8192); File never exceeds 8192 and Small never
\* exceeds Suspend.
C11_SwapSizeRule ==
    pc = "swap done" =>
        LET ram  == swap_in.ram_mb
            size == swap_out[1]
        IN  /\ Len(swap_out) = 1
            /\ swap_in.mode = "None" => size = 0
            /\ swap_in.mode = "Small" =>
                    /\ 2 * size <= ram
                    /\ ram < 2 * size + 2
                    /\ size <= ram
            /\ swap_in.mode = "Suspend" => size = ram
            /\ swap_in.mode = "File" =>
                    /\ size <= 8192
                    /\ size <= ram
                    /\ size = ram \/ size = 8192
            /\ (swap_in.mode = "File" /\ ram = 16384) => size = 8192

C11_Witness ==
    /\ pc = "swap done"
    /\ swap_in = [mode |-> "File", ram_mb |-> 16384]
    /\ swap_out = << 8192 >>

SwapOps ==
    {"dd swapfile", "chmod 600 swapfile", "chroot mkswap", "append fstab swap"}

SwapWanted == swap_in.mode # "None" /\ swap_out # << 0 >>

FailedOp(op) ==
    \E i \in 1..Len(cmds) : cmds[i].op = op /\ cmds[i].res = "fail"

SucceededOp(op) ==
    \E i \in 1..Len(cmds) : cmds[i].op = op /\ cmds[i].res = "ok"

\* C12, as stated: after setup_swap a swap file exists at
\* <mount_point>/swapfile if and only if the mode is not None and the
\* computed size is nonzero; for mode None or a zero size no swap command
\* is run.
C12_SwapFileIffWanted ==
    pc = "swap done" =>
        /\ swapfile <=> SwapWanted
        /\ ~SwapWanted => Ops(cmds) \cap SwapOps = {}

\* C12, amended: the four swap commands are issued if and only if the mode
\* is not None and the computed size is nonzero; a swap file exists only in
\* that case, and it exists whenever dd succeeded.
C12_SwapCommandsIffWanted ==
    pc = "swap done" =>
        /\ SwapWanted => SwapOps \subseteq Ops(cmds)
        /\ ~SwapWanted => cmds = << >>
        /\ swapfile => SwapWanted
        /\ SucceededOp("dd swapfile") => swapfile

C12_Witness ==
    /\ pc = "swap done"
    /\ swap_in = [mode |-> "Small", ram_mb |-> 1]
    /\ swap_out = << 0 >>
    /\ cmds = << >>
    /\ ~swapfile

SwapCommandFailed == \E op \in SwapOps : FailedOp(op)

\* C13: when a command of the swap materialization failed (dd, chmod,
\* mkswap or the fstab append), the success message for the swap file is
\* not printed, the system-configuration step still returned success and
\* the driver step is what runs next.
C13_SwapFailureIsWarning ==
    SwapCommandFailed =>
        /\ ~Issuing("print_success")
        /\ Returned("configure_system", "ok")
        /\ pc # "configure_system"
        /\ pc = "detect_and_install_drivers"
               \/ "detect_and_install_drivers" \in StepNames

FormatSucceeded ==
    /\ layout_returned
    /\ pc \notin {"partition_disk", "format_partitions"}
    /\ ~FormatFailed

\* C14, as stated: with encryption requested and formatting succeeded, the
\* root mount, the UUID read for the boot parameters and the boot entry all
\* address /dev/mapper/cryptroot and never the raw root partition.
C14_AllAddressMapped ==
    (config.use_encryption /\ FormatSucceeded) =>
        \A i \in 1..Len(cmds) :
            /\ cmds[i].op \in {"mount", "blkid"} =>
                    /\ cmds[i].arg = CRYPTROOT
                    /\ cmds[i].arg # partition_layout.root_partition
            /\ cmds[i].op = "efibootmgr" =>
                    /\ cmds[i].arg[3].root = [kind |-> "path", v |-> CRYPTROOT]
                    /\ \A j \in 1..Len(cmds[i].arg[3].cryptdevice) :
                           cmds[i].arg[3].cryptdevice[j].uuid_of = CRYPTROOT

\* C14, amended: with encryption requested and formatting succeeded, the
\* filesystem is created on and mounted from /dev/mapper/cryptroot and the
\* boot entry names it as root=, never the raw partition; the UUID is read
\* from the raw root partition, for cryptdevice=UUID=.
C14_MappedRootAfterFormat ==
    (config.use_encryption /\ FormatSucceeded) =>
        /\ CRYPTROOT # partition_layout.root_partition
        /\ \A i \in 1..Len(cmds) :
            /\ cmds[i].op \in {"mount", "mkfs.ext4"} =>
                    cmds[i].arg = CRYPTROOT
            /\ cmds[i].op = "blkid" =>
                    cmds[i].arg = partition_layout.root_partition
            /\ cmds[i].op = "efibootmgr" =>
                    /\ cmds[i].arg[3].root = [kind |-> "path", v |-> CRYPTROOT]
                    /\ cmds[i].arg[3].cryptdevice =
                           << [uuid_of |-> partition_layout.root_partition,
                               name    |-> "cryptroot"] >>

C14_Witness ==
    /\ config.use_encryption
    /\ FormatSucceeded
    /\ SucceededOp("mount")
    /\ SucceededOp("efibootmgr")
    /\ ret = "true"

\* C15: the device mounted at the mount root is /dev/mapper/cryptroot if and
\* only if encryption was requested; without encryption it is the raw root
\* partition of the layout, also when a stale cryptroot mapping survived
\* the best-effort close.
C15_MappedIffEncrypted ==
    \A i \in 1..Len(cmds) :
        cmds[i].op = "mount" =>
            /\ cmds[i].arg = CRYPTROOT <=> config.use_encryption
            /\ ~config.use_encryption =>
                    cmds[i].arg = partition_layout.root_partition

Elems(seq) == {seq[i] : i \in 1..Len(seq)}

\* a <= b in the order NVIDIA, AMD, Intel, network
StackRank(p) ==
    CASE p \in Elems(NvidiaStack)   -> 1
      [] p \in Elems(AmdStack)      -> 2
      [] p \in Elems(IntelStack)    -> 3
      [] p \in Elems(BroadcomStack) -> 4

NoSignature ==
    scan_text \cap {"nvidia", "[amd/ati]", "radeon", "amd", "intel",
                    "broadcom", "realtek"} = {}

Marked32(p) == p # << >> /\ p[1] = "lib32-"

\* C17: the 32-bit flag is true if and only if some resolved package name
\* starts with lib32-; a scan with an NVIDIA signature yields a lib32-
\* package and a true flag; a scan with no GPU or network signature yields
\* no package and a false flag.
C17_FlagIffLib32 ==
    \A i \in 1..Len(resolved) :
        LET pkgs == resolved[i].driver_packages
            flag == resolved[i].has_32bit
        IN  /\ flag <=> \E k \in 1..Len(pkgs) : Marked32(pkgs[k])
            /\ "nvidia" \in scan_text =>
                    /\ flag
                    /\ \E k \in 1..Len(pkgs) : Marked32(pkgs[k])
            /\ NoSignature => (pkgs = << >> /\ ~flag)

C17_Witness ==
    /\ Len(resolved) >= 1
    /\ scan_text = {"nvidia", "vga"}
    /\ resolved[1].has_32bit
    /\ << "lib32-", "nvidia-", "utils" >> \in Elems(resolved[1].driver_packages)

DriverInstallFailed == FailedOp("chroot pacman -S")

\* C18: the driver step never fails the pipeline: whatever its commands
\* answered, it is followed by install_packages, and install() never
\* returns false with the driver step as its last step.
C18_DriverFailureNotFatal ==
    /\ \A i \in 1..Len(steps) :
          steps[i].name = "detect_and_install_drivers" =>
              /\ steps[i].res = "unit"
              /\ IF i < Len(steps)
                 THEN steps[i + 1].name = "install_packages"
                 ELSE pc = "install_packages" /\ ret = "running"
    /\ DriverInstallFailed =>
          /\ "detect_and_install_drivers" \in StepNames
          /\ pc = "install_packages" \/ "install_packages" \in StepNames
    /\ ret = "false" =>
          steps[Len(steps)].name # "detect_and_install_drivers"

C18_Witness ==
    /\ DriverInstallFailed
    /\ Returned("install_packages", "ok")
    /\ ret = "true"

\* str spells label, letter case disregarded
SameIgnoringCase(str, label) ==
    /\ Len(str) = Len(label)
    /\ \A k \in 1..Len(label) :
          \/ str[k] = label[k]
          \/ \E j \in 1..Len(Cases) :
                Cases[j][1] = label[k] /\ Cases[j][2] = str[k]

Spells(label) ==
    /\ swap_setting.disk
    /\ swap_setting.swap # << >>
    /\ SameIgnoringCase(swap_setting.swap[1], label)

\* C19: none, small, suspend and file, in any letter case, parse to None,
\* Small, Suspend and File; every other string parses to Suspend; a
\* configuration without a swap setting yields Suspend.
C19_SwapModeParsing ==
    pc = "parse done" =>
        /\ Spells(LABEL_NONE) => swap_parsed = "None"
        /\ Spells(LABEL_SMALL) => swap_parsed = "Small"
        /\ Spells(LABEL_SUSPEND) => swap_parsed = "Suspend"
        /\ Spells(LABEL_FILE) => swap_parsed = "File"
        /\ (~Spells(LABEL_NONE) /\ ~Spells(LABEL_SMALL) /\ ~Spells(LABEL_FILE))
              => swap_parsed = "Suspend"

C19_Witness ==
    /\ pc = "parse done"
    /\ swap_setting = [disk |-> TRUE, swap |-> << <<"S", "m", "A", "l", "L">> >>]
    /\ swap_parsed = "Small"

\* the commands whose argument is taken from the context's layout
LayoutReadOps == FormatOps \cup {"mount", "mount efi", "blkid", "efibootmgr"}

LayoutRead == \E i \in 1..Len(cmds) : cmds[i].op \in LayoutReadOps

Placeholder ==
    [efi_partition |-> << >>, root_partition |-> << >>, scheme |-> "GptUefi"]

\* C20: formatting, mounting and boot configuration read the context's
\* layout only after partition_disk returned a layout in this run; when
\* partition_disk fails the layout keeps the value given at construction,
\* the run ends, and nothing reads the layout.
C20_LayoutReadOnlyAfterReturned ==
    /\ pc \in {"format_partitions", "mount_partitions", "install_bootloader"}
          => layout_returned
    /\ LayoutRead =>
          /\ layout_returned
          /\ partition_layout # Placeholder
          /\ partition_layout.root_partition # << >>
    /\ (~layout_returned /\ pc # "partition_disk") =>
          /\ partition_layout = Placeholder
          /\ steps = << [name |-> "prepare_disk", res |-> "fail"] >>
          /\ pc = "done"
          /\ ret = "false"
          /\ ~LayoutRead

C20_Witness ==
    /\ ~layout_returned
    /\ pc = "done"
    /\ partition_layout = Placeholder
    /\ FailedOp("parted mkpart ext4")
    /\ error_message = "Failed to partition disk"

\* the commands that create the table and the partitions of a scheme
CreateOps(scheme) ==
    IF scheme = "GptUefi"
    THEN {"parted mklabel gpt", "parted mkpart fat32", "parted mkpart ext4"}
    ELSE {"parted mklabel msdos", "parted mkpart ext4"}

AllCreateOps == CreateOps("GptUefi") \cup CreateOps("MbrBios")

PartitioningOps ==
    AllCreateOps \cup {"parted set esp", "parted set boot", "partprobe"}

\* C21: partition_disk returns a layout if and only if the table creation
\* and every partition creation succeeded, whatever the best-effort
\* cleanup, the close of a stale mapping and wipefs answered; a failed
\* creation command is the last partitioning command issued.
C21_LayoutIffCreated ==
    /\ pc # "partition_disk" =>
          (layout_returned <=>
              \A op \in CreateOps(plan(uefi)) : SucceededOp(op))
    /\ \A i \in 1..Len(cmds) :
          (cmds[i].op \in AllCreateOps /\ cmds[i].res = "fail") =>
              /\ ~layout_returned
              /\ \A j \in (i + 1)..Len(cmds) :
                    cmds[j].op \notin PartitioningOps

C21_Witness ==
    /\ layout_returned
    /\ FailedOp("wipefs")
    /\ Issuing("swapoff")
    /\ cryptroot_exists
    /\ pc = "format_partitions"

\* position in the log of the command op, 0 when it was not issued
LogPos(op) ==
    IF Issuing(op) THEN CHOOSE i \in 1..Len(cmds) : cmds[i].op = op ELSE 0

FormatRan == layout_returned /\ pc \notin {"partition_disk", "format_partitions"}

FormatReturnedTrue ==
    FormatRan /\ error_message # "Failed to format partitions"

\* C22: with encryption the root commands are luksFormat on the root
\* partition, open as cryptroot, mkfs.ext4 on /dev/mapper/cryptroot, in that
\* order and each only after the one before succeeded; without encryption
\* mkfs.ext4 runs on the root partition; format_partitions returns true if
\* and only if every command it issued succeeded.
C22_FormatOrder ==
    /\ config.use_encryption =>
          /\ Issuing("cryptsetup open") =>
                /\ SucceededOp("cryptsetup luksFormat")
                /\ LogPos("cryptsetup luksFormat") < LogPos("cryptsetup open")
          /\ Issuing("mkfs.ext4") =>
                /\ SucceededOp("cryptsetup open")
                /\ LogPos("cryptsetup open") < LogPos("mkfs.ext4")
          /\ \A i \in 1..Len(cmds) :
                /\ cmds[i].op = "mkfs.ext4" =>
                      /\ cmds[i].arg = CRYPTROOT
                      /\ cmds[i].arg # partition_layout.root_partition
                /\ cmds[i].op \in {"cryptsetup luksFormat", "cryptsetup open"}
                      => cmds[i].arg = partition_layout.root_partition
    /\ ~config.use_encryption =>
          /\ ~Issuing("cryptsetup luksFormat")
          /\ ~Issuing("cryptsetup open")
          /\ \A i \in 1..Len(cmds) :
                cmds[i].op = "mkfs.ext4" =>
                    cmds[i].arg = partition_layout.root_partition
    /\ \A op \in FormatOps :
          Cardinality({i \in 1..Len(cmds) : cmds[i].op = op}) <= 1
    /\ FormatRan =>
          (FormatReturnedTrue <=>
              \A i \in 1..Len(cmds) :
                  cmds[i].op \in FormatOps => cmds[i].res = "ok")
    /\ FormatReturnedTrue => SucceededOp("mkfs.ext4")

C22_Witness ==
    /\ config.use_encryption
    /\ FormatReturnedTrue
    /\ SucceededOp("cryptsetup open")
    /\ SucceededOp("mkfs.ext4")
    /\ pc = "mount_partitions"

Word(w) == w \in scan_text

NvidiaSignature == Word("nvidia")

AmdSignature ==
    \/ Word("[amd/ati]")
    \/ Word("radeon")
    \/ ((Word("amd") \/ Word("[amd/ati]")) /\ Word("vga"))

IntelSignature == Word("intel") /\ (Word("vga") \/ Word("display"))

BroadcomSignature ==
    Word("broadcom") /\ (Word("wireless") \/ Word("network") \/ Word("bcm43"))

RealtekSignature == Word("realtek") /\ (Word("wireless") \/ Word("rtl8"))

\* how many entries of pkgs belong to stack
CountIn(pkgs, stack) ==
    Cardinality({k \in 1..Len(pkgs) : pkgs[k] \in Elems(stack)})

\* stack occurs in pkgs as one contiguous block
HasBlock(pkgs, stack) ==
    \E k \in 0..(Len(pkgs) - Len(stack)) :
        SubSeq(pkgs, k + 1, k + Len(stack)) = stack

\* C23: each of the NVIDIA, AMD and Intel stacks is in the resolved set,
\* whole and once, exactly when its own signature condition holds, whatever
\* the other conditions are; a Broadcom wireless signature adds exactly one
\* package; a Realtek wireless signature adds none; nothing else is added.
C23_IndependentStacks ==
    \A i \in 1..Len(resolved) :
        LET pkgs == resolved[i].driver_packages
            Added(cond, stack) ==
                IF cond
                THEN HasBlock(pkgs, stack)
                     /\ CountIn(pkgs, stack) = Len(stack)
                ELSE CountIn(pkgs, stack) = 0
        IN  /\ Added(NvidiaSignature, NvidiaStack)
            /\ Added(AmdSignature, AmdStack)
            /\ Added(IntelSignature, IntelStack)
            /\ Added(BroadcomSignature, BroadcomStack)
            /\ Len(BroadcomStack) = 1
            /\ Len(pkgs) = CountIn(pkgs, NvidiaStack) + CountIn(pkgs, AmdStack)
                           + CountIn(pkgs, IntelStack)
                           + CountIn(pkgs, BroadcomStack)

C23_Witness ==
    /\ Len(resolved) >= 1
    /\ scan_text = {"nvidia", "intel", "display", "realtek", "wireless",
                    "broadcom"}
    /\ RealtekSignature
    /\ Len(resolved[1].driver_packages) = 9

\* pacman.conf has an active [multilib] section and no commented one
AlreadyEnabled == pacman_conf.multilib /\ ~pacman_conf.commented

Times(op) == Cardinality({i \in 1..Len(cmds) : cmds[i].op = op})

\* C24: pacman.conf is edited and the 32-bit packages are installed again
\* only when the 32-bit flag holds and multilib is not already enabled;
\* this happens at most once, with exactly the lib32- packages of the
\* resolved set; with multilib already enabled nothing is edited and no
\* package is installed a second time.
C24_MultilibRetry ==
    pc = "resolve done" =>
        LET pkgs    == resolved[1].driver_packages
            flag    == \E k \in 1..Len(pkgs) : Marked32(pkgs[k])
            Edited  == Issuing("chroot sed multilib")
            Retried == Issuing("chroot pacman -S lib32")
        IN  /\ Edited => (flag /\ ~AlreadyEnabled)
            /\ Retried => Edited
            /\ (flag /\ ~AlreadyEnabled) => (Edited /\ Retried)
            /\ Times("chroot sed multilib") <= 1
            /\ Times("chroot pacman -Sy") <= 1
            /\ Times("chroot pacman -S lib32") <= 1
            /\ Times("chroot pacman -S") <= 1
            /\ Retried =>
                  LET again == cmds[LogPos("chroot pacman -S lib32")].arg
                  IN  /\ again # << >>
                      /\ \A k \in 1..Len(again) :
                            Marked32(again[k]) /\ again[k] \in Elems(pkgs)
                      /\ \A k \in 1..Len(pkgs) :
                            Marked32(pkgs[k]) => pkgs[k] \in Elems(again)
                      /\ Len(again) =
                            Cardinality({k \in 1..Len(pkgs) : Marked32(pkgs[k])})
                      /\ LogPos("chroot sed multilib")
                            < LogPos("chroot pacman -S lib32")
            /\ AlreadyEnabled =>
                  /\ ~Edited
                  /\ ~Retried
                  /\ ~Issuing("chroot pacman -Sy")

C24_Witness ==
    /\ pc = "resolve done"
    /\ scan_text = {"radeon"}
    /\ pacman_conf = [multilib |-> TRUE, commented |-> TRUE]
    /\ Issuing("chroot sed multilib")
    /\ Len(cmds[LogPos("chroot pacman -S lib32")].arg) = 2

\* C25: the kernel parameters of the firmware boot entry hold
\* cryptdevice=UUID=<uuid>:cryptroot and root=/dev/mapper/cryptroot if and
\* only if encryption was requested, and root=UUID=<uuid> otherwise; <uuid>
\* is the one blkid read from the layout's root partition.
C25_KernelParams ==
    \A i \in 1..Len(cmds) :
        cmds[i].op = "efibootmgr" =>
            LET params == cmds[i].arg[3]
                raw    == partition_layout.root_partition
            IN  /\ config.use_encryption <=>
                      /\ params.cryptdevice =
                            << [uuid_of |-> raw, name |-> "cryptroot"] >>
                      /\ params.root = [kind |-> "path", v |-> CRYPTROOT]
                /\ ~config.use_encryption <=>
                      /\ params.cryptdevice = << >>
                      /\ params.root = [kind |-> "UUID", v |-> raw]
                /\ raw # << >>
                /\ \E j \in 1..(i - 1) :
                      cmds[j].op = "blkid" /\ cmds[j].arg = raw
                /\ \A j \in 1..Len(cmds) :
                      cmds[j].op = "blkid" => cmds[j].arg = raw

C25_Witness ==
    /\ config.use_encryption
    /\ config.bootloader = "nmbl"
    /\ SucceededOp("efibootmgr")
    /\ cmds[LogPos("efibootmgr")].arg[3].root.v = CRYPTROOT

ConventionalPathRun ==
    /\ Issuing("chroot grub-install efi") \/ Issuing("chroot grub-install bios")
    /\ Issuing("chroot grub-mkconfig")

\* C26: whenever grub-install and grub-mkconfig are run in the target, the
\* pacstrap of the same run had grub in its package list, also when the
\* conventional path is reached by fallback from nmbl on BIOS firmware.
C26_GrubInstalledBeforeUse ==
    ConventionalPathRun =>
        \E i \in 1..Len(cmds) :
            /\ cmds[i].op = "pacstrap"
            /\ cmds[i].res = "ok"
            /\ "grub" \in Elems(cmds[i].arg)

\* the steps whose result install() can be ended by
FallibleSteps ==
    {"prepare_disk", "install_base_system", "generate_fstab",
     "install_bootloader"}

\* C27: install() returns false only after a failure of disk preparation,
\* the base system, fstab generation or the firmware entry of the DirectBoot
\* path; every other step returns success, and so does the conventional
\* bootloader path, whose command statuses are not consulted.
C27_OnlyFourFailures ==
    /\ \A i \in 1..Len(steps) :
          /\ steps[i].res = "fail" =>
                /\ steps[i].name \in FallibleSteps
                /\ i = Len(steps)
                /\ ret = "false"
          /\ (steps[i].res = "fail" /\ steps[i].name = "install_bootloader") =>
                /\ EntryFailed
                /\ config.bootloader = "nmbl" /\ uefi
                /\ ~ConventionalPathRun
    /\ ret = "false" =>
          /\ steps # << >>
          /\ steps[Len(steps)].res = "fail"
    /\ ConventionalPathRun => Returned("install_bootloader", "ok")
    /\ ret = "true" => \A i \in 1..Len(steps) : steps[i].res # "fail"

C27_Witness ==
    /\ ret = "true"
    /\ ConventionalPathRun
    /\ SwapCommandFailed
    /\ DriverInstallFailed
    /\ Returned("finalize", "ok")

\* C28: the swap entry is appended to the fstab only when the swap file was
\* created by dd and initialised by mkswap; after a failure of either, the
\* fstab receives no swap entry.
C28_FstabEntryOnlyForSwapFile ==
    SucceededOp("append fstab swap") =>
        /\ SucceededOp("dd swapfile")
        /\ SucceededOp("chroot mkswap")

\* some command of the DirectBoot path was issued
DirectBootRun == \E i \in 1..Len(cmds) : cmds[i].op \in DirectBootOps

\* C29: the DirectBoot path runs only on a layout returned by partition_disk
\* with scheme GptUefi and a non-empty EFI partition name, so the split is
\* never applied to the empty path and efibootmgr never receives an empty
\* disk or an empty partition number.
C29_DirectBootOnUefiLayout ==
    /\ DirectBootRun =>
          /\ layout_returned
          /\ partition_layout.scheme = "GptUefi"
          /\ partition_layout.efi_partition # << >>
          /\ ~split_efi_part(partition_layout.efi_partition).panic
    /\ \A i \in 1..Len(cmds) :
          cmds[i].op = "efibootmgr" =>
              /\ cmds[i].arg[1] # << >>
              /\ cmds[i].arg[2] # << >>
              /\ cmds[i].arg[1] \o cmds[i].arg[2] # partition_layout.efi_partition
                    => is_nvme(partition_layout.efi_partition)
    /\ ret # "panic"

C29_Witness ==
    /\ Issuing("efibootmgr")
    /\ is_nvme(partition_layout.efi_partition)
    /\ Returned("install_bootloader", "ok")

\* C30: step 6 of interactive_setup never indexes an empty keyboard list:
\* whatever Config::load returned, it prompts for a layout or prints the
\* first entry, and the program is not aborted.
C30_KeyboardStepNeverAborts ==
    /\ keyboard_step # "panic"
    /\ pc = "keyboard done" =>
          /\ keyboard_step \in {"prompted", "printed"}
          /\ keyboards # << >>

====
